---- MODULE Spec2Model ----
(***************************************************************************)
(* Datadog pager bridge (src/main.py): the shared MQTT connection handle,  *)
(* ensure_mqtt / start_mqtt / publish_to_device, the webhook, test-alert   *)
(* and connect handlers, the inbound ack/resolve callback and the SQLite   *)
(* credential store.                                                       *)
(*                                                                         *)
(* Threads: the asyncio event loop runs one `async def` handler at a time  *)
(* (every handler blocks the loop while it runs), so there is one request  *)
(* program counter, pc.  The paho network thread of a client whose loop    *)
(* was started runs concurrently with it: handshake completion, link       *)
(* drops, reconnects, broker acknowledgements, and inbound messages.       *)
(***************************************************************************)
EXTENDS Integers, Sequences, FiniteSets, TLC

(* ------------------------------ bounds -------------------------------- *)
\* Client objects that can exist at once (ids are reused after collection).
MaxClients == 2
\* Messages accepted by the transport in one run (paho message ids).
MaxMsgs == 2
\* Upserts in one run (each reads the clock once).
MaxClock == 2
\* Characters of a device identifier written out character by character.
MaxIdLen == 3

(* -------------------------- program constants ------------------------- *)
PollLimit == 40
TitleMax == 120
SeverityMax == 30
ServiceMax == 60
UuidLen == 8
TestIdLen == 11

DEVICE_ID == "ddpager-poc-001"
DefaultSite == "datadoghq.com"
Devices == {DEVICE_ID, "pager-42"}
ClientIds == 1..MaxClients
Mids == 1..MaxMsgs

Min(a, b) == IF a < b THEN a ELSE b

(* ------------------------------ JSON values --------------------------- *)
\* A JSON value is its type, an identity tag (which source value it is) and,
\* for a string, its length in characters; for a number or an object, the
\* length of its Python str().
JAbsent == [t |-> "absent", tag |-> "", n |-> 0]
JNull == [t |-> "null", tag |-> "", n |-> 0]
JStr(tag, n) == [t |-> "str", tag |-> tag, n |-> n]
JNum(tag, n) == [t |-> "num", tag |-> tag, n |-> n]
JDict(tag, n) == [t |-> "dict", tag |-> tag, n |-> n]

\* str(v)
PyStr(v) ==
  CASE v.t = "str" -> v
    [] v.t = "null" -> JStr("None", 4)
    [] OTHER -> JStr(v.tag, v.n)

\* v[:k] of a string
Slice(v, k) == [v EXCEPT !.n = Min(v.n, k)]

\* dict.get(key, default): the default only when the key is missing
Get(body, key, default) == IF body[key].t = "absent" THEN default ELSE body[key]

\* A webhook body: shape is "dict" (a JSON object), "list" (valid JSON that
\* is no object) or "invalid" (request.json() raises); the other fields are
\* the values of the keys the handler reads, tags_service being
\* body["tags"]["service"] when tags is an object.
BodyKeys == {"id", "alert_id", "page_id", "title", "message", "name",
             "severity", "priority", "urgency", "service", "service_name",
             "tags", "tags_service"}
BodyWith(shape, kv) ==
  [k \in BodyKeys \cup {"shape"} |->
     IF k = "shape" THEN shape
     ELSE IF k \in DOMAIN kv THEN kv[k] ELSE JAbsent]
\* No webhook body: the request is of another kind
NoBody == BodyWith("none", [id |-> JAbsent])

VARIABLES
  db,           \* devices table: device_id -> row or NoRow
  clock,        \* time.time(), advanced by each upsert
  env,          \* DD_API_KEY / DD_APP_KEY / DD_SITE of the process
  mqtt_client,  \* the module-level handle: 0 (None) or a client id
  clients,      \* the live Client objects: id -> state
  nextMid,      \* next paho message id
  delivered,    \* message ids the broker has acknowledged
  pc,           \* where the event-loop thread is
  req,          \* the request being served
  ens,          \* the running ensure_mqtt call
  handed,       \* what this request handed to mqtt_client.publish
  resp,         \* the response returned by the request
  cb,           \* the last on_mqtt_message invocation
  ups           \* per device: when it was first upserted, and the last upsert

vars == <<db, clock, env, mqtt_client, clients, nextMid, delivered,
          pc, req, ens, handed, resp, cb, ups>>

(* ------------------------------ MQTT client --------------------------- *)
SubAck == <<"dd", "pager", "+", "ack">>
SubResolve == <<"dd", "pager", "+", "resolve">>

\* f"dd/pager/{device_id}/{subtopic}", as the segments between its slashes,
\* for a device_id without a slash
Topic(device_id, subtopic) == <<"dd", "pager", device_id, subtopic>>

\* Strings character by character: the text of the four channel names, and
\* the device identifiers of up to MaxIdLen characters over p, 4 and /
Chars(name) ==
  CASE name = "alert" -> <<"a", "l", "e", "r", "t">>
    [] name = "ack" -> <<"a", "c", "k">>
    [] name = "resolve" -> <<"r", "e", "s", "o", "l", "v", "e">>
    [] name = "setup_complete" -> <<"s", "e", "t", "u", "p", "_", "c", "o", "m",
                                   "p", "l", "e", "t", "e">>
    [] name = "dd" -> <<"d", "d">>
    [] name = "pager" -> <<"p", "a", "g", "e", "r">>
    [] OTHER -> <<>>
Channels == {"alert", "ack", "resolve", "setup_complete"}
DeviceStrings ==
  UNION {[1..n -> {"p", "4", "/"}] : n \in 0..MaxIdLen}

\* Mutant of TopicString: the two placeholders of the f-string swapped
TopicStringSwapped(device_id, subtopic) ==
  Chars("dd") \o <<"/">> \o Chars("pager") \o <<"/">> \o subtopic \o <<"/">> \o device_id

\* f"dd/pager/{device_id}/{subtopic}" (line 229), character by character
TopicString(device_id, subtopic) ==
  Chars("dd") \o <<"/">> \o Chars("pager") \o <<"/">> \o device_id \o <<"/">> \o subtopic

\* topic.split("/") (line 140): the pieces between the slashes; cur is the
\* piece being read, parts the pieces read so far
RECURSIVE SplitSlash(_, _, _)
SplitSlash(text, cur, parts) ==
  IF text = <<>> THEN Append(parts, cur)
  ELSE IF Head(text) = "/"
    THEN SplitSlash(Tail(text), <<>>, Append(parts, cur))
    ELSE SplitSlash(Tail(text), Append(cur, Head(text)), parts)

\* A payload: the JSON object of an alert, or the text of setup_complete
Payload(kind, id, title, severity, service) ==
  [kind |-> kind, id |-> id, title |-> title, severity |-> severity,
   service |-> service]
NoPayload == Payload("none", JAbsent, JAbsent, JAbsent, JAbsent)
NoMsg == [mid |-> 0, topic |-> <<>>, payload |-> NoPayload]
NoResp == [status |-> "none", code |-> 0, alert_id |-> JAbsent, device_id |-> "", detail |-> ""]
NoReq == [kind |-> "none", device_id |-> "", subtopic |-> "", payload |-> NoPayload,
          alert_id |-> JAbsent, upserted |-> FALSE, hook |-> "none",
          validate |-> "none", body |-> NoBody, tx |-> {}]
EnsIdle == [starts |-> 0, waits |-> 0, polls |-> 0, saw |-> FALSE, ret |-> "none"]
NoCb == [topic |-> <<>>, payload |-> "", posts |-> <<>>, raised |-> FALSE]

\* Mutant of StartedClient: a start_mqtt that waits for the CONNACK before
\* it returns
StartedClientAwaited == [loop |-> TRUE, conn |-> "connected", subs |-> {}, queue |-> <<>>]
\* mqtt.Client(...) after connect() and loop_start(): handshake in flight
StartedClient == [loop |-> TRUE, conn |-> "connecting", subs |-> {}, queue |-> <<>>]
\* mqtt.Client(...) whose connect() raised: no socket, loop never started
UnstartedClient == [loop |-> FALSE, conn |-> "disconnected", subs |-> {}, queue |-> <<>>]

\* mqtt_client and mqtt_client.is_connected()
IsConnected == mqtt_client /= 0 /\ clients[mqtt_client].conn = "connected"

\* A Client object is live: its network loop runs or its socket is open
Live(c) == c.loop \/ c.conn /= "disconnected"

\* How the try block of start_mqtt (lines 178-182) ends: both calls return;
\* loop_stop() raises, so that disconnect() is skipped; disconnect() raises
TeardownOutcomes == {"ok", "loop_stop_raised", "disconnect_raised"}

\* The Client objects left once start_mqtt has gone through its teardown
\* (lines 177-182) and rebound mqtt_client: loop_stop() joins the network
\* thread of the previous handle and disconnect() closes its socket; a call
\* that raised has done neither, and the except clause passes. An object
\* that is no longer referenced and not live is collected, the messages
\* still queued in it with it.
Teardown(outcome) ==
  IF mqtt_client = 0 THEN clients
  ELSE LET torn ==
             CASE outcome = "ok" ->
                    [clients EXCEPT ![mqtt_client].loop = FALSE,
                                    ![mqtt_client].conn = "disconnected"]
               [] outcome = "loop_stop_raised" -> clients
               [] OTHER -> [clients EXCEPT ![mqtt_client].loop = FALSE]
       IN [c \in {x \in DOMAIN torn : Live(torn[x])} |-> torn[c]]

\* The same when loop_stop() and disconnect() both return
AfterTeardown == Teardown("ok")

\* start_mqtt(): tear the previous handle down (outcome), bind a new Client,
\* connect() (connOk = FALSE: connect() raises, after mqtt_client was
\* rebound) and start its network loop.
StartMqttTorn(outcome, connOk) ==
  LET kept == Teardown(outcome)
      new == CHOOSE i \in ClientIds : i \notin DOMAIN kept /\
               \A j \in ClientIds : j \notin DOMAIN kept => i <= j
  IN /\ Cardinality(DOMAIN kept) < MaxClients
     /\ mqtt_client' = new
     /\ clients' = [c \in DOMAIN kept \cup {new} |->
                      IF c = new
                        THEN (IF connOk THEN StartedClient ELSE UnstartedClient)
                        ELSE kept[c]]

\* start_mqtt() whose teardown raised nothing
StartMqtt(connOk) == StartMqttTorn("ok", connOk)

\* stop_mqtt()
StopMqtt ==
  /\ clients' = IF mqtt_client /= 0
                  THEN [clients EXCEPT ![mqtt_client].loop = FALSE,
                                       ![mqtt_client].conn = "disconnected"]
                  ELSE clients
  /\ UNCHANGED mqtt_client

\* Mutant of OnConnectSubs: on_mqtt_connect without its second subscribe
OnConnectSubsAckOnly(rc) == IF rc = 0 THEN {SubAck} ELSE {}

\* The subscriptions on_mqtt_connect makes for a return code rc
OnConnectSubs(rc) == IF rc = 0 THEN {SubAck, SubResolve} ELSE {}

\* Network thread: CONNACK arrives with return code 0; on_mqtt_connect runs
ConnAck(h) ==
  /\ h \in DOMAIN clients
  /\ clients[h].loop /\ clients[h].conn = "connecting"
  /\ clients' = [clients EXCEPT ![h].conn = "connected",
                                ![h].subs = @ \cup OnConnectSubs(0)]
  /\ UNCHANGED <<db, clock, env, mqtt_client, nextMid, delivered, pc, req, ens,
                 handed, resp, cb, ups>>

\* Network thread: the broker refuses the handshake (rc /= 0) or it fails
ConnRefused(h) ==
  /\ h \in DOMAIN clients
  /\ clients[h].loop /\ clients[h].conn = "connecting"
  /\ clients' = [clients EXCEPT ![h].conn = "disconnected",
                                ![h].subs = @ \cup OnConnectSubs(5)]
  /\ UNCHANGED <<db, clock, env, mqtt_client, nextMid, delivered, pc, req, ens,
                 handed, resp, cb, ups>>

\* Network thread: the established link fails; the clean session's
\* subscriptions are gone with it
LinkDrop(h) ==
  /\ h \in DOMAIN clients
  /\ clients[h].loop /\ clients[h].conn = "connected"
  /\ clients' = [clients EXCEPT ![h].conn = "disconnected", ![h].subs = {}]
  /\ UNCHANGED <<db, clock, env, mqtt_client, nextMid, delivered, pc, req, ens,
                 handed, resp, cb, ups>>

\* Network thread: the loop started by loop_start() reconnects after its
\* backoff delay (reconnect_delay_set)
Reconnect(h) ==
  /\ h \in DOMAIN clients
  /\ clients[h].loop /\ clients[h].conn = "disconnected"
  /\ clients' = [clients EXCEPT ![h].conn = "connecting"]
  /\ UNCHANGED <<db, clock, env, mqtt_client, nextMid, delivered, pc, req, ens,
                 handed, resp, cb, ups>>

\* Network thread: the oldest queued qos-1 message reaches the broker and is
\* acknowledged
Deliver(h) ==
  /\ h \in DOMAIN clients
  /\ clients[h].loop /\ clients[h].conn = "connected"
  /\ clients[h].queue /= <<>>
  /\ delivered' = delivered \cup {Head(clients[h].queue)}
  /\ clients' = [clients EXCEPT ![h].queue = Tail(@)]
  /\ UNCHANGED <<db, clock, env, mqtt_client, nextMid, pc, req, ens,
                 handed, resp, cb, ups>>

(* ---------------------------- handler results ------------------------- *)
\* _handle_webhook: the two return statements (lines 295, 298)
WebhookPublished(alert_id, device_id) ==
  [status |-> "published", code |-> 200, alert_id |-> alert_id,
   device_id |-> device_id, detail |-> ""]
WebhookError(detail) ==
  [status |-> "error", code |-> 200, alert_id |-> JAbsent, device_id |-> "",
   detail |-> detail]

\* test_alert: the two return statements (lines 329, 331)
TestSent(alert_id, device_id) ==
  [status |-> "sent", code |-> 200, alert_id |-> alert_id,
   device_id |-> device_id, detail |-> ""]
TestError(detail) ==
  [status |-> "error", code |-> 200, alert_id |-> JAbsent, device_id |-> "",
   detail |-> detail]

\* connect_device: the responses (lines 348, 362, 369, 409, 436)
ConnectPage(status, code, device_id) ==
  [status |-> status, code |-> code, alert_id |-> JAbsent,
   device_id |-> device_id, detail |-> ""]

\* Mutant of OnPublishError: test_alert without its try/except, so that the
\* exception leaves the handler
OnPublishErrorEscapes(detail) ==
  CASE req.kind = "webhook" -> WebhookError(detail)
    [] req.kind = "test" ->
         [status |-> "raised", code |-> 500, alert_id |-> JAbsent,
          device_id |-> "", detail |-> detail]
    [] OTHER -> ConnectPage("connected", 200, req.device_id)

\* Mutant of OnPublishError: connect_device without the try/except around
\* its publish_to_device, so that the outer handler answers 500
OnPublishErrorFailsConnect(detail) ==
  CASE req.kind = "webhook" -> WebhookError(detail)
    [] req.kind = "test" -> TestError(detail)
    [] OTHER -> ConnectPage("connection_error", 500, req.device_id)

\* What the running handler returns when publish_to_device raised
OnPublishError(detail) ==
  CASE req.kind = "webhook" -> WebhookError(detail)
    [] req.kind = "test" -> TestError(detail)
    [] OTHER -> ConnectPage("connected", 200, req.device_id)

\* What the running handler returns when publish_to_device returned
OnPublished ==
  CASE req.kind = "webhook" -> WebhookPublished(req.alert_id, req.device_id)
    [] req.kind = "test" -> TestSent(req.alert_id, req.device_id)
    [] OTHER -> ConnectPage("connected", 200, req.device_id)

(* ------------------------------ ensure_mqtt --------------------------- *)
\* Mutant of EnsureTimeout: the raise at the end of ensure_mqtt is missing
EnsureTimeoutReturns == "return"
\* How ensure_mqtt ends when the 40 polls are used up (line 217)
EnsureTimeout == "raise"
\* Mutant of EnsureRetryFailed: the second exception is only logged and the
\* poll loop is entered
EnsureRetryFailedPolls == "poll"
\* How ensure_mqtt ends when the retried start_mqtt raises too (line 211)
EnsureRetryFailed == "raise"

\* Mutant of EnsureCheck: ensure_mqtt without its check on entry, restarting
\* the client whatever its state
EnsureCheckRestarts ==
  /\ pc = "ens_check"
  /\ pc' = "ens_start1"
  /\ UNCHANGED <<db, clock, env, mqtt_client, clients, nextMid, delivered,
                 req, ens, handed, resp, cb, ups>>

\* ensure_mqtt, line 199: the check on entry
EnsureCheck ==
  /\ pc = "ens_check"
  /\ IF IsConnected
       THEN /\ ens' = [ens EXCEPT !.saw = TRUE, !.ret = "ok"]
            /\ pc' = "publish"
       ELSE /\ pc' = "ens_start1"
            /\ UNCHANGED ens
  /\ UNCHANGED <<db, clock, env, mqtt_client, clients, nextMid, delivered,
                 req, handed, resp, cb, ups>>

\* ensure_mqtt, lines 201-205: the first start_mqtt(), its teardown ending
\* as outcome says
EnsureStartTorn(outcome) ==
  /\ pc = "ens_start1"
  /\ \E connOk \in BOOLEAN :
       /\ StartMqttTorn(outcome, connOk)
       /\ ens' = [ens EXCEPT !.starts = @ + 1]
       /\ pc' = IF connOk THEN "ens_poll" ELSE "ens_start2"
  /\ UNCHANGED <<db, clock, env, nextMid, delivered, req, handed, resp, cb, ups>>

\* The same, the teardown raising nothing
EnsureStart == EnsureStartTorn("ok")

\* ensure_mqtt, lines 206-211: sleep(1), then the retried start_mqtt(), its
\* teardown ending as outcome says
EnsureRetryTorn(outcome) ==
  /\ pc = "ens_start2"
  /\ \E connOk \in BOOLEAN :
       /\ StartMqttTorn(outcome, connOk)
       /\ IF connOk \/ EnsureRetryFailed /= "raise"
            THEN /\ ens' = [ens EXCEPT !.starts = @ + 1, !.waits = @ + 1]
                 /\ pc' = "ens_poll"
                 /\ UNCHANGED resp
            ELSE /\ ens' = [ens EXCEPT !.starts = @ + 1, !.waits = @ + 1,
                                       !.ret = "raised"]
                 /\ pc' = "done"
                 /\ resp' = OnPublishError("connect failed")
  /\ UNCHANGED <<db, clock, env, nextMid, delivered, req, handed, cb, ups>>

\* The same, the teardown raising nothing
EnsureRetry == EnsureRetryTorn("ok")

\* Mutant of EnsurePoll: `while not connected: sleep`, no bound on the passes
EnsurePollForever ==
  /\ pc = "ens_poll"
  /\ IF IsConnected
       THEN /\ ens' = [ens EXCEPT !.polls = @ + 1, !.saw = TRUE, !.ret = "ok"]
            /\ pc' = "publish"
       ELSE /\ ens' = [ens EXCEPT !.polls = @ + 1]
            /\ UNCHANGED pc
  /\ UNCHANGED <<db, clock, env, mqtt_client, clients, nextMid, delivered,
                 req, handed, resp, cb, ups>>

\* ensure_mqtt, lines 212-217: one pass of the poll loop (check, sleep 0.25),
\* or the timeout once the passes are used up
EnsurePoll ==
  /\ pc = "ens_poll"
  /\ IF ens.polls < PollLimit
       THEN IF IsConnected
              THEN /\ ens' = [ens EXCEPT !.polls = @ + 1, !.saw = TRUE, !.ret = "ok"]
                   /\ pc' = "publish"
                   /\ UNCHANGED resp
              ELSE /\ ens' = [ens EXCEPT !.polls = @ + 1]
                   /\ UNCHANGED <<pc, resp>>
       ELSE IF EnsureTimeout = "raise"
              THEN /\ ens' = [ens EXCEPT !.ret = "raised"]
                   /\ pc' = "done"
                   /\ resp' = OnPublishError("MQTT reconnect timed out after 10s")
              ELSE /\ ens' = [ens EXCEPT !.ret = "ok"]
                   /\ pc' = "publish"
                   /\ UNCHANGED resp
  /\ UNCHANGED <<db, clock, env, mqtt_client, clients, nextMid, delivered,
                 req, handed, cb, ups>>

\* publish_to_device, lines 229-231, after ensure_mqtt returned:
\* mqtt_client.publish(topic, payload, qos=1) queues the message in the
\* current client (accepted = TRUE) or raises ValueError
Publish ==
  /\ pc = "publish"
  /\ \E accepted \in BOOLEAN :
       IF accepted
         THEN /\ clients' = [clients EXCEPT ![mqtt_client].queue = Append(@, nextMid)]
              /\ handed' = [mid |-> nextMid,
                            topic |-> Topic(req.device_id, req.subtopic),
                            payload |-> req.payload]
              /\ nextMid' = nextMid + 1
              /\ resp' = OnPublished
         ELSE /\ resp' = OnPublishError("publish rejected")
              /\ UNCHANGED <<clients, handed, nextMid>>
  /\ pc' = "done"
  /\ UNCHANGED <<db, clock, env, mqtt_client, delivered, req, ens, cb, ups>>

(* ------------------------------ _handle_webhook ----------------------- *)
\* str(uuid.uuid4())[:8]
NewUuid == JStr("uuid", UuidLen)

\* line 277
webhook_alert_id(body) ==
  PyStr(Get(body, "id", Get(body, "alert_id", Get(body, "page_id", NewUuid))))
\* line 278, then 282-283
webhook_title(body) ==
  LET title == Get(body, "title", Get(body, "message", Get(body, "name", JStr("Alert", 5))))
  IN IF title.t = "dict" THEN PyStr(title) ELSE title
\* line 279
webhook_severity(body) ==
  Get(body, "severity", Get(body, "priority", Get(body, "urgency", JStr("P?", 2))))
\* body.get("tags", {}).get("service", "unknown"), line 280
webhook_tags_service(body) ==
  IF body["tags"].t = "absent"
    THEN JStr("unknown", 7)
    ELSE Get(body, "tags_service", JStr("unknown", 7))
\* line 280, then 284-285
webhook_service(body) ==
  LET service == Get(body, "service", Get(body, "service_name", webhook_tags_service(body)))
  IN IF service.t = "dict" THEN PyStr(service) ELSE service

\* The exceptions lines 274-292 raise: no JSON, a body without .get, a
\* "tags" value without .get (evaluated whatever the other keys hold), a
\* title that cannot be sliced
WebhookRaises(body) ==
  \/ body["shape"] /= "dict"
  \/ body["tags"].t \notin {"absent", "dict"}
  \/ webhook_title(body).t /= "str"

\* lines 287-292
webhook_payload(body) ==
  Payload("alert",
          webhook_alert_id(body),
          Slice(webhook_title(body), TitleMax),
          Slice(PyStr(webhook_severity(body)), SeverityMax),
          Slice(PyStr(webhook_service(body)), ServiceMax))

\* _handle_webhook up to the call of publish_to_device (lines 272-294), for
\* webhook_legacy (device_id = DEVICE_ID) and webhook_device
HandleWebhook(device_id, body) ==
  /\ pc = "idle"
  /\ nextMid <= MaxMsgs
  /\ IF WebhookRaises(body)
       THEN /\ pc' = "done"
            /\ resp' = WebhookError("exception")
            /\ req' = [NoReq EXCEPT !.kind = "webhook", !.device_id = device_id,
                                    !.body = body]
            /\ UNCHANGED ens
       ELSE /\ pc' = "ens_check"
            /\ req' = [NoReq EXCEPT !.kind = "webhook", !.device_id = device_id,
                                    !.subtopic = "alert",
                                    !.payload = webhook_payload(body),
                                    !.alert_id = webhook_alert_id(body),
                                    !.body = body]
            /\ ens' = EnsIdle
            /\ UNCHANGED resp
  /\ UNCHANGED <<db, clock, env, mqtt_client, clients, nextMid, delivered,
                 handed, cb, ups>>

(* ------------------------------ test_alert ---------------------------- *)
\* A test-alert body: shape as above; device_id is "" when the key is
\* missing; title, severity, service are JSON values (JAbsent when missing).
TestBody(shape, device_id, title, severity, service) ==
  [shape |-> shape, device_id |-> device_id, title |-> title,
   severity |-> severity, service |-> service]

\* lines 304-314: the except branch takes the defaults for the three
\* fields and keeps the device of the query string
test_device_id(query, body) ==
  IF body.shape = "dict" /\ body.device_id /= "" THEN body.device_id ELSE query
test_title(body) ==
  IF body.shape = "dict" /\ body.title.t /= "absent" THEN body.title
  ELSE JStr("Test Alert", 10)
test_severity(body) ==
  IF body.shape = "dict" /\ body.severity.t /= "absent" THEN body.severity
  ELSE JStr("P3 - Test", 9)
test_service(body) ==
  IF body.shape = "dict" /\ body.service.t /= "absent" THEN body.service
  ELSE JStr("pager-setup", 11)

\* f"test-{uuid.uuid4().hex[:6]}", line 316
NewTestId == JStr("test-uuid", TestIdLen)

\* lines 317-322
test_payload(body) ==
  Payload("alert", NewTestId, test_title(body), test_severity(body),
          test_service(body))

\* test_alert up to the call of publish_to_device (lines 302-326); query is
\* request.query_params.get("device", DEVICE_ID)
TestAlert(query, body) ==
  /\ pc = "idle"
  /\ nextMid <= MaxMsgs
  /\ pc' = "ens_check"
  /\ req' = [NoReq EXCEPT !.kind = "test",
                          !.device_id = test_device_id(query, body),
                          !.subtopic = "alert",
                          !.payload = test_payload(body),
                          !.alert_id = NewTestId]
  /\ ens' = EnsIdle
  /\ UNCHANGED <<db, clock, env, mqtt_client, clients, nextMid, delivered,
                 handed, resp, cb, ups>>

(* ------------------------------ credential store ---------------------- *)
\* A row of the devices table (init_db, lines 63-69)
Row(device_id, api_key, app_key, dd_site, created_at) ==
  [device_id |-> device_id, api_key |-> api_key, app_key |-> app_key,
   dd_site |-> dd_site, created_at |-> created_at]
\* fetchone() found nothing: None
NoRow == Row("", "", "", "", 0)

\* Mutant of db_get_device: a read that is not isolated from the open
\* transaction of another connection and sees the api_key it has written
db_get_device_dirty(device_id) ==
  LET pending == {r \in req.tx : r.device_id = device_id /\ device_id = req.device_id}
  IN IF \E r \in db : r.device_id = device_id
       THEN LET row == CHOOSE r \in db : r.device_id = device_id
            IN IF pending /= {}
                 THEN [row EXCEPT !.api_key = (CHOOSE r \in pending : TRUE).api_key]
                 ELSE row
       ELSE [device_id |-> "", api_key |-> "", app_key |-> "", dd_site |-> "",
             created_at |-> 0]

\* SELECT * FROM devices WHERE device_id = ?  ... fetchone(), on a
\* connection of its own: it reads what is committed
db_get_device(device_id) ==
  IF \E r \in db : r.device_id = device_id
    THEN CHOOSE r \in db : r.device_id = device_id
    ELSE NoRow

\* Mutant of db_upsert_device: INSERT OR REPLACE, which rewrites the whole row
db_replace_device(device_id, api_key, app_key, dd_site, now) ==
  {r \in db : r.device_id /= device_id}
    \cup {[device_id |-> device_id, api_key |-> api_key, app_key |-> app_key,
           dd_site |-> dd_site, created_at |-> now]}

\* The table after INSERT ... ON CONFLICT(device_id) DO UPDATE SET api_key,
\* app_key, dd_site, with time.time() = now
db_upsert_device(device_id, api_key, app_key, dd_site, now) ==
  IF \E r \in db : r.device_id = device_id
    THEN {IF r.device_id = device_id
            THEN [r EXCEPT !.api_key = api_key, !.app_key = app_key,
                           !.dd_site = dd_site]
            ELSE r : r \in db}
    ELSE db \cup {Row(device_id, api_key, app_key, dd_site, now)}

\* What ups holds for a device never upserted
NoUpsert == [first |-> 0, api_key |-> "", app_key |-> "", dd_site |-> ""]

\* One call of db_upsert_device(device_id, api_key, app_key, dd_site): the
\* statement runs with time.time() = clock; ups notes the call
DbUpsertCall(device_id, api_key, app_key, dd_site) ==
  /\ db' = db_upsert_device(device_id, api_key, app_key, dd_site, clock)
  /\ clock' = clock + 1
  /\ ups' = [ups EXCEPT ![device_id] =
               [first |-> IF @.first = 0 THEN clock ELSE @.first,
                api_key |-> api_key, app_key |-> app_key, dd_site |-> dd_site]]

\* db_upsert_device, lines 86-94: connect() and execute(). The statement
\* runs in the implicit transaction of this connection: the table as the
\* statement leaves it is held by the connection, not yet by the file.
UpsertExecute(device_id, api_key, app_key, dd_site) ==
  /\ req.tx = {}
  /\ clock <= MaxClock
  /\ req' = [NoReq EXCEPT !.kind = "upsert", !.device_id = device_id,
                          !.tx = db_upsert_device(device_id, api_key, app_key,
                                                  dd_site, clock)]
  /\ UNCHANGED <<db, clock, env, mqtt_client, clients, nextMid, delivered, pc,
                 ens, handed, resp, cb, ups>>

\* db_upsert_device, lines 95-96: commit() and close(). The transaction
\* becomes the table, in one step.
UpsertCommit ==
  /\ req.tx /= {}
  /\ LET row == CHOOSE r \in req.tx : r.device_id = req.device_id
     IN /\ db' = req.tx
        /\ clock' = clock + 1
        /\ ups' = [ups EXCEPT ![req.device_id] =
                     [first |-> IF @.first = 0 THEN clock ELSE @.first,
                      api_key |-> row.api_key, app_key |-> row.app_key,
                      dd_site |-> row.dd_site]]
  /\ req' = NoReq
  /\ UNCHANGED <<env, mqtt_client, clients, nextMid, delivered, pc, ens,
                 handed, resp, cb>>

\* (headers, site), or None
Auth(api_key, app_key, site) == [api_key |-> api_key, app_key |-> app_key, site |-> site]
NoAuth == Auth("", "", "")

\* Mutant of get_device_headers: the environment keys are tried first
get_device_headers_env_first(device_id) ==
  LET device == IF \E r \in db : r.device_id = device_id
                  THEN CHOOSE r \in db : r.device_id = device_id
                  ELSE [device_id |-> "", api_key |-> "", app_key |-> "",
                        dd_site |-> "", created_at |-> 0]
  IN IF env.DD_API_KEY /= ""
       THEN [api_key |-> env.DD_API_KEY, app_key |-> env.DD_APP_KEY, site |-> env.DD_SITE]
       ELSE IF device.device_id /= "" /\ device.api_key /= ""
              THEN [api_key |-> device.api_key, app_key |-> device.app_key,
                    site |-> device.dd_site]
              ELSE [api_key |-> "", app_key |-> "", site |-> ""]

\* get_device_headers
get_device_headers(device_id) ==
  LET device == db_get_device(device_id)
  IN IF device /= NoRow /\ device.api_key /= ""
       THEN Auth(device.api_key, device.app_key, device.dd_site)
       ELSE IF env.DD_API_KEY /= ""
              THEN Auth(env.DD_API_KEY, env.DD_APP_KEY, env.DD_SITE)
              ELSE NoAuth

(* ------------------------------ on_mqtt_message ----------------------- *)
\* Payload bytes the broker can hand over; the last is no valid UTF-8
InvalidUtf8 == "<0xff>"
\* msg.payload.decode("utf-8") raises UnicodeDecodeError
DecodeRaises(payload) == payload = InvalidUtf8
\* .strip()
Strip(x) ==
  CASE x = " x1\n" -> "x1"
    [] x = " k1 " -> "k1"
    [] x = "  " -> ""
    [] OTHER -> x

\* One httpx.post of _dd_api_call (lines 166-168)
Post(auth, alert_id, action, outcome) ==
  [site |-> auth.site, api_key |-> auth.api_key, app_key |-> auth.app_key,
   alert_id |-> alert_id, action |-> action, outcome |-> outcome]

\* _dd_api_call: the POSTs it makes; outcome is the status class of the
\* response ("2xx", "5xx") or "exception", all of them only logged
dd_api_call(device_id, alert_id, action, outcome) ==
  LET result == get_device_headers(device_id)
  IN IF result = NoAuth
       THEN <<>>
       ELSE <<Post(result, alert_id, action, outcome)>>

\* on_mqtt_message, lines 140-155, once the payload is decoded: the POSTs
on_message_posts(topic, alert_id, outcome) ==
  IF Len(topic) /= 4
    THEN <<>>
    ELSE LET device_id == topic[3]
             action == topic[4]
         IN CASE action = "ack" -> dd_api_call(device_id, alert_id, "acknowledge", outcome)
              [] action = "resolve" -> dd_api_call(device_id, alert_id, "resolve", outcome)
              [] OTHER -> <<>>

\* on_mqtt_message(client, userdata, msg): what the invocation did
on_mqtt_message(topic, payload, outcome) ==
  /\ cb' = IF DecodeRaises(payload)
             THEN [topic |-> topic, payload |-> payload, posts |-> <<>>,
                   raised |-> TRUE]
             ELSE [topic |-> topic, payload |-> payload,
                   posts |-> on_message_posts(topic, Strip(payload), outcome),
                   raised |-> FALSE]

\* topic matches a subscription filter
Matches(topic, filter) ==
  /\ Len(topic) = Len(filter)
  /\ \A i \in 1..Len(filter) : filter[i] = "+" \/ filter[i] = topic[i]

\* Network thread: a message arrives on a subscribed address
Inbound(h, topic, payload, outcome) ==
  /\ h \in DOMAIN clients
  /\ clients[h].loop /\ clients[h].conn = "connected"
  /\ \E f \in clients[h].subs : Matches(topic, f)
  /\ on_mqtt_message(topic, payload, outcome)
  /\ UNCHANGED <<db, clock, env, mqtt_client, clients, nextMid, delivered,
                 pc, req, ens, handed, resp, ups>>

(* ------------------------------ connect_device ------------------------ *)
\* The form fields as read at lines 342-345
Form(device_id, api_key, app_key, dd_site) ==
  [device_id |-> device_id, api_key |-> Strip(api_key),
   app_key |-> Strip(app_key), dd_site |-> Strip(dd_site)]

\* Mutant of Validated: the status code of the validation call is ignored
ValidatedAnyStatus(validate) == validate /= "exception"
\* lines 360 and 367: the validation call returned, with status 200
Validated(validate) == validate = "200"

\* Mutant of KeysMissing: only the API key is required
KeysMissingApiOnly(form) == form.api_key = ""

\* line 347
KeysMissing(form) == form.api_key = "" \/ form.app_key = ""

\* connect_device up to the call of publish_to_device (lines 340-404):
\* validate is the outcome of the GET /api/v1/validate ("200", another
\* status, or "exception"); hook the outcome of the webhook POST
ConnectDevice(form, validate, hook) ==
  /\ pc = "idle"
  /\ nextMid <= MaxMsgs
  /\ clock <= MaxClock
  /\ IF KeysMissing(form)
       THEN /\ pc' = "done"
            /\ resp' = ConnectPage("keys_required", 400, form.device_id)
            /\ req' = [NoReq EXCEPT !.kind = "connect", !.device_id = form.device_id]
            /\ UNCHANGED <<db, clock, ens, ups>>
       ELSE IF ~Validated(validate)
         THEN /\ pc' = "done"
              /\ resp' = IF validate = "exception"
                           THEN ConnectPage("connection_error", 500, form.device_id)
                           ELSE ConnectPage("invalid_keys", 400, form.device_id)
              /\ req' = [NoReq EXCEPT !.kind = "connect", !.device_id = form.device_id,
                                      !.validate = validate]
              /\ UNCHANGED <<db, clock, ens, ups>>
         ELSE /\ DbUpsertCall(form.device_id, form.api_key, form.app_key, form.dd_site)
              /\ req' = [NoReq EXCEPT !.kind = "connect", !.device_id = form.device_id,
                                      !.subtopic = "setup_complete",
                                      !.payload = Payload("text", JStr("connected", 9),
                                                          JAbsent, JAbsent, JAbsent),
                                      !.validate = validate, !.upserted = TRUE,
                                      !.hook = hook]
              /\ ens' = EnsIdle
              /\ pc' = "ens_check"
              /\ UNCHANGED resp
  /\ UNCHANGED <<env, mqtt_client, clients, nextMid, delivered, handed, cb>>

(* ------------------------------ lifespan ------------------------------ *)
\* lifespan startup: init_db(), start_mqtt(); a raising start_mqtt() ends
\* the process before it serves anything
Lifespan ==
  /\ pc = "boot"
  /\ \E connOk \in BOOLEAN :
       /\ StartMqtt(connOk)
       /\ pc' = IF connOk THEN "idle" ELSE "stopped"
  /\ UNCHANGED <<db, clock, env, nextMid, delivered, req, ens, handed, resp, cb, ups>>

\* lifespan shutdown: stop_mqtt()
Shutdown ==
  /\ pc = "idle"
  /\ StopMqtt
  /\ pc' = "stopped"
  /\ UNCHANGED <<db, clock, env, nextMid, delivered, req, ens, handed, resp, cb, ups>>

\* The handler's response is sent; the event loop takes the next request
Respond ==
  /\ pc = "done"
  /\ pc' = "idle"
  /\ req' = NoReq
  /\ ens' = EnsIdle
  /\ handed' = NoMsg
  /\ resp' = NoResp
  /\ UNCHANGED <<db, clock, env, mqtt_client, clients, nextMid, delivered, cb, ups>>

(* ------------------------------ inputs -------------------------------- *)
\* Webhook bodies: the spec's first end-to-end scenario; over-long fields
\* with a nested service and no id; no JSON at all; a numeric title; both
\* id and alert_id, the service under tags; a null id before an alert_id; a
\* service beside tags given as a string
WebhookBodies ==
  { BodyWith("dict", [id |-> JStr("x1", 2), title |-> JStr("Disk full", 9),
                      priority |-> JStr("P1", 2), service_name |-> JStr("db", 2)]),
    BodyWith("dict", [title |-> JStr("long", 200), severity |-> JStr("long", 40),
                      service |-> JDict("svc", 80)]),
    BodyWith("invalid", [id |-> JAbsent]),
    BodyWith("dict", [title |-> JNum("7", 1)]),
    BodyWith("dict", [id |-> JStr("x1", 2), alert_id |-> JStr("a7", 2),
                      message |-> JStr("CPU high", 8),
                      tags |-> JDict("tags", 20), tags_service |-> JStr("web", 3)]),
    BodyWith("dict", [id |-> JNull, alert_id |-> JStr("a7", 2),
                      title |-> JStr("Disk full", 9)]),
    BodyWith("dict", [id |-> JStr("x2", 2), title |-> JStr("Disk full", 9),
                      service |-> JStr("db", 2), tags |-> JStr("env:prod", 8)]) }

\* Test-alert bodies: none, and one overriding every field
TestBodies ==
  { TestBody("invalid", "", JAbsent, JAbsent, JAbsent),
    TestBody("dict", "pager-42", JStr("long", 200), JStr("long", 40), JStr("long", 80)) }

\* Registration forms
Forms ==
  { Form(d, k[1], k[2], DefaultSite) :
      d \in Devices, k \in {<<" k1 ", "a1">>, <<"k2", "a2">>, <<"  ", "a1">>,
                             <<"k2", "">>} }
ValidateOutcomes == {"200", "403", "exception"}
PostOutcomes == {"2xx", "5xx", "exception"}

\* Arguments of direct db_upsert_device calls
UpsertKeys == {<<"k1", "a1">>, <<"k2", "a2">>, <<"", "a2">>}
Sites == {DefaultSite, "datadoghq.eu"}

\* Inbound messages: on the two subscribed channels, on another channel, on
\* addresses of three and five segments, and on one of four segments under
\* another prefix
InboundTopics ==
  { Topic(DEVICE_ID, "ack"), Topic("pager-42", "resolve"),
    Topic(DEVICE_ID, "alert"), <<"dd", "pager", DEVICE_ID>>,
    <<"dd", "pager", DEVICE_ID, "ack", "x">>,
    <<"zz", "beeper", DEVICE_ID, "ack">> }
InboundPayloads == {" x1\n", "x2", InvalidUtf8}

\* The addresses the two subscriptions let through
SubscribedTopics ==
  {Topic(d, c) : d \in Devices, c \in {"ack", "resolve"}}

\* DD_API_KEY, DD_APP_KEY, DD_SITE: unset, or the legacy fallback keys
NoFallback == [DD_API_KEY |-> "", DD_APP_KEY |-> "", DD_SITE |-> DefaultSite]
Envs ==
  { NoFallback,
    [DD_API_KEY |-> "envk", DD_APP_KEY |-> "enva", DD_SITE |-> "datadoghq.eu"] }

(* ------------------------------ specifications ------------------------ *)
Init ==
  /\ db = {}
  /\ clock = 1
  /\ env \in Envs
  /\ mqtt_client = 0
  /\ clients = [c \in {} |-> StartedClient]
  /\ nextMid = 1
  /\ delivered = {}
  /\ pc = "boot"
  /\ req = NoReq
  /\ ens = EnsIdle
  /\ handed = NoMsg
  /\ resp = NoResp
  /\ cb = NoCb
  /\ ups = [d \in Devices |-> NoUpsert]

\* The network thread of client h, inbound messages apart
Network ==
  \E h \in ClientIds :
    \/ ConnAck(h)
    \/ ConnRefused(h)
    \/ LinkDrop(h)
    \/ Reconnect(h)
    \/ Deliver(h)

\* publish_to_device, step by step
PublishToDevice ==
  \/ EnsureCheck
  \/ EnsureStart
  \/ EnsureRetry
  \/ EnsurePoll
  \/ Publish

\* Spec: the alert path. Webhook and test-alert requests served over the
\* shared connection, with its network thread running beside them.
Next ==
  \/ Lifespan
  \/ Shutdown
  \/ \E d \in Devices, b \in WebhookBodies : HandleWebhook(d, b)
  \/ \E q \in Devices, b \in TestBodies : TestAlert(q, b)
  \/ PublishToDevice
  \/ Respond
  \/ Network

\* The fallback keys are read by get_device_headers alone
InitNoFallback == Init /\ env = NoFallback

Spec == InitNoFallback /\ [][Next]_vars

\* RegSpec: the registration path. connect_device requests served over the
\* shared connection.
RegNext ==
  \/ Lifespan
  \/ Shutdown
  \/ \E f \in Forms, v \in ValidateOutcomes, k \in {"ok", "failed"} :
       ConnectDevice(f, v, k)
  \/ PublishToDevice
  \/ Respond
  \/ Network

RegSpec == InitNoFallback /\ [][RegNext]_vars

\* StoreSpec: the credential store and the inbound dispatcher as called
\* functions: db_upsert_device with any arguments, on_mqtt_message with any
\* message, under either environment.
UpsertDevice(device_id, api_key, app_key, dd_site) ==
  /\ clock <= MaxClock
  /\ DbUpsertCall(device_id, api_key, app_key, dd_site)
  /\ UNCHANGED <<env, mqtt_client, clients, nextMid, delivered, pc, req, ens,
                 handed, resp, cb>>

OnMessage(topic, payload, outcome) ==
  /\ on_mqtt_message(topic, payload, outcome)
  /\ UNCHANGED <<db, clock, env, mqtt_client, clients, nextMid, delivered,
                 pc, req, ens, handed, resp, ups>>

StoreNext ==
  \/ \E d \in Devices, k \in UpsertKeys, s \in Sites : UpsertDevice(d, k[1], k[2], s)
  \/ \E t \in InboundTopics, p \in InboundPayloads, o \in PostOutcomes :
       OnMessage(t, p, o)

StoreSpec == Init /\ [][StoreNext]_vars

\* TxSpec: the store under its two threads. A request handler on the
\* event-loop thread runs db_upsert_device statement by statement while the
\* network thread runs on_mqtt_message, whose lookup falls before, between
\* or after the statements.
TxNext ==
  \/ \E d \in Devices, k \in UpsertKeys, s \in Sites : UpsertExecute(d, k[1], k[2], s)
  \/ UpsertCommit
  \/ \E t \in SubscribedTopics, p \in InboundPayloads, o \in PostOutcomes :
       OnMessage(t, p, o)

TxSpec == Init /\ [][TxNext]_vars

\* TopicSpec: the address of one message, character by character.
\* publish_to_device formats it; on_mqtt_message splits it.
FormatTopic(device_id, subtopic) ==
  /\ handed.topic = <<>>
  /\ handed' = [NoMsg EXCEPT !.topic = TopicString(device_id, Chars(subtopic))]
  /\ UNCHANGED <<db, clock, env, mqtt_client, clients, nextMid, delivered,
                 pc, req, ens, resp, cb, ups>>

SplitTopic ==
  /\ handed.topic /= <<>>
  /\ cb.topic = <<>>
  /\ cb' = [NoCb EXCEPT !.topic = SplitSlash(handed.topic, <<>>, <<>>)]
  /\ UNCHANGED <<db, clock, env, mqtt_client, clients, nextMid, delivered,
                 pc, req, ens, handed, resp, ups>>

TopicNext ==
  \/ \E d \in DeviceStrings, c \in Channels : FormatTopic(d, c)
  \/ SplitTopic

TopicSpec == InitNoFallback /\ [][TopicNext]_vars

\* HandleSpec: the connection handle under every way its teardown can end.
\* Webhook requests of one device served over the shared connection, each
\* start_mqtt() they make going through a teardown that returns or raises.
HandleNext ==
  \/ Lifespan
  \/ Shutdown
  \/ \E b \in WebhookBodies : HandleWebhook(DEVICE_ID, b)
  \/ EnsureCheck
  \/ \E o \in TeardownOutcomes : EnsureStartTorn(o)
  \/ \E o \in TeardownOutcomes : EnsureRetryTorn(o)
  \/ EnsurePoll
  \/ Publish
  \/ Respond
  \/ Network

HandleSpec == InitNoFallback /\ [][HandleNext]_vars

\* InboundSpec: the inbound path. The network thread of the client started
\* at startup, delivering the messages the broker sends for the two
\* subscriptions, under either environment.

InboundNext ==
  \/ Lifespan
  \/ Shutdown
  \/ \E h \in ClientIds :
       \/ ConnAck(h)
       \/ ConnRefused(h)
       \/ LinkDrop(h)
       \/ Reconnect(h)
       \/ \E t \in SubscribedTopics, p \in InboundPayloads, o \in PostOutcomes :
            Inbound(h, t, p, o)

InboundSpec == Init /\ [][InboundNext]_vars

\* FairSpec: Spec with the event-loop thread scheduled: it keeps executing
\* the handler it is in (sleep, connect and publish all return).
FairSpec == InitNoFallback /\ [][Next]_vars /\ WF_vars(PublishToDevice)

\* start_mqtt() called by ensure_mqtt returns without raising
StartSucceeds ==
  /\ EnsureStart \/ EnsureRetry
  /\ clients'[mqtt_client'].loop

\* LiveSpec: FairSpec with a network that works in the end. Responses are
\* sent; a started network loop keeps reconnecting; the broker eventually
\* lets connect() through, accepts a handshake, and acknowledges a queued
\* message.
LiveSpec ==
  /\ InitNoFallback /\ [][Next]_vars
  /\ WF_vars(PublishToDevice)
  /\ WF_vars(Respond)
  /\ SF_vars(StartSucceeds)
  /\ \A h \in ClientIds :
       /\ WF_vars(Reconnect(h))
       /\ SF_vars(ConnAck(h))
       /\ SF_vars(Deliver(h))

(* ============================== claims ================================ *)

\* The event-loop thread is inside ensure_mqtt
InEnsure == pc \in {"ens_check", "ens_start1", "ens_start2", "ens_poll"}

\* C1: every ensure_mqtt call ends: it never makes more than two start_mqtt
\* calls nor more than 40 polls, a call that used up its 40 polls without
\* seeing the link connected has raised, and a call in progress always
\* comes to its end (return or raise).
C1_EnsureTerminates ==
  /\ [](/\ ens.starts <= 2
        /\ ens.polls <= 40
        /\ (ens.polls = 40 /\ ~ens.saw /\ ~InEnsure /\ ens.ret /= "none"
              => ens.ret = "raised"))
  /\ (InEnsure ~> ~InEnsure)

\* C1 witness: a call that polled 40 times in vain and raised the timeout
C1_Witness ==
  /\ pc = "done"
  /\ ens.polls = 40
  /\ ens.ret = "raised"
  /\ resp.detail = "MQTT reconnect timed out after 10s"

\* A step hands a message to mqtt_client.publish
HandsOver == nextMid' /= nextMid \/ (handed' /= handed /\ handed'.mid /= 0)

\* C2: a message is handed to the transport only by a call whose
\* ensure_mqtt returned normally; ensure_mqtt returns normally only having
\* read the handle as connected; and a call whose ensure_mqtt raised has
\* handed nothing over.
C2_PublishAfterEnsure ==
  /\ [](ens.ret = "ok" => ens.saw)
  /\ [](ens.ret = "raised" => handed.mid = 0 /\ pc = "done")
  /\ [][HandsOver => pc = "publish" /\ ens.ret = "ok" /\ ens.saw]_vars

\* C2 witness: a message handed over after a restart and a successful poll
C2_Witness ==
  /\ pc = "done"
  /\ handed.mid /= 0
  /\ ens.ret = "ok"
  /\ ens.starts = 2
  /\ ens.polls > 1

\* C3: a finished webhook or test-alert request carries one of the three
\* statuses; "error" exactly when nothing was handed to the transport (the
\* normalization, ensure_mqtt or publish failed); "published" (webhook) or
\* "sent" (test alert) with the id of the message that was handed over on
\* dd/pager/<device>/alert.
C3_HandlerBoundary ==
  pc = "done" =>
    /\ resp.status \in {"published", "sent", "error"}
    /\ (resp.status = "error" <=> handed.mid = 0)
    /\ (ens.ret = "raised" => resp.status = "error")
    /\ (resp.status /= "error" =>
          /\ resp.status = (IF req.kind = "webhook" THEN "published" ELSE "sent")
          /\ handed.topic = <<"dd", "pager", resp.device_id, "alert">>
          /\ resp.device_id = req.device_id
          /\ handed.payload.id = resp.alert_id)

\* C3 witness: a test alert whose ensure_mqtt timed out, answered "error"
C3_Witness ==
  /\ pc = "done"
  /\ req.kind = "test"
  /\ ens.ret = "raised"
  /\ ens.polls = 40
  /\ resp.status = "error"
  /\ handed.mid = 0

\* The responses of connect_device that reject the registration after the
\* validation call
Rejections == {"invalid_keys", "connection_error"}

\* C4: the store changes only in a request whose validation returned 200;
\* a request whose validation returned another status or failed ends at
\* once with a rejection, the store, the connection and the transport
\* queue as they were, no webhook registration attempted.
C4_PersistAfterValidation ==
  /\ [](req.upserted \/ req.hook /= "none" => req.validate = "200")
  /\ [][db' /= db => req'.kind = "connect" /\ req'.validate = "200"]_vars
  /\ [][pc = "idle" /\ req'.kind = "connect" /\ req'.validate \notin {"none", "200"}
          => /\ pc' = "done"
             /\ resp'.status \in Rejections
             /\ resp'.code \in {400, 500}
             /\ db' = db
             /\ req'.hook = "none"
             /\ ~req'.upserted
             /\ handed'.mid = 0
             /\ nextMid' = nextMid
             /\ clients' = clients]_vars

\* C4 witness: a registration rejected for an upstream 403 while the store
\* already holds a record
C4_Witness ==
  /\ pc = "done"
  /\ req.kind = "connect"
  /\ req.validate = "403"
  /\ resp.status = "invalid_keys"
  /\ db /= {}

\* The upstream action of a channel
ActionOf(channel) == IF channel = "ack" THEN "acknowledge" ELSE "resolve"

\* C5 (as claimed): an on_mqtt_message invocation for a 4-segment address
\* on ack or resolve whose credentials resolve makes exactly one POST, for
\* the trimmed payload, with the resolved credentials and region, and
\* raises nothing; on any other channel it makes no POST.
C5_OnePostPerMessage ==
  [][cb' /= cb /\ Len(cb'.topic) = 4 =>
       LET device_id == cb'.topic[3]
           channel == cb'.topic[4]
           auth == get_device_headers(device_id)
       IN /\ (channel \in {"ack", "resolve"} /\ auth /= NoAuth =>
                /\ ~cb'.raised
                /\ Len(cb'.posts) = 1
                /\ cb'.posts[1].action = ActionOf(channel)
                /\ cb'.posts[1].alert_id = Strip(cb'.payload)
                /\ cb'.posts[1].api_key = auth.api_key
                /\ cb'.posts[1].app_key = auth.app_key
                /\ cb'.posts[1].site = auth.site)
          /\ (channel \notin {"ack", "resolve"} => cb'.posts = <<>>)]_vars

\* C6 (as claimed): an on_mqtt_message invocation for ack or resolve of a
\* device without stored credentials, no fallback configured, makes no
\* POST, changes nothing, and raises nothing.
C6_NoCredentialsNoCall ==
  [][cb' /= cb /\ Len(cb'.topic) = 4 /\ cb'.topic[4] \in {"ack", "resolve"}
       /\ ~(\E r \in db : r.device_id = cb'.topic[3] /\ r.api_key /= "")
       /\ env.DD_API_KEY = ""
       => /\ cb'.posts = <<>>
          /\ ~cb'.raised
          /\ UNCHANGED <<db, clock, env, mqtt_client, clients>>]_vars

\* Devices a lookup can name: the registered ones and one never seen
LookupDevices == Devices \cup {"pager-unknown"}

\* C7: get_device_headers yields the stored record's keys and region
\* whenever the device has a record with a non-empty api_key, fallback or
\* not; the fallback keys and region when it has none and DD_API_KEY is
\* set; nothing otherwise.
C7_CredentialResolution ==
  \A d \in LookupDevices :
    LET stored == {r \in db : r.device_id = d /\ r.api_key /= ""}
        got == get_device_headers(d)
    IN /\ (stored /= {} =>
             \E r \in stored : /\ got.api_key = r.api_key
                               /\ got.app_key = r.app_key
                               /\ got.site = r.dd_site)
       /\ (stored = {} /\ env.DD_API_KEY /= "" =>
             /\ got.api_key = env.DD_API_KEY
             /\ got.app_key = env.DD_APP_KEY
             /\ got.site = env.DD_SITE)
       /\ (stored = {} /\ env.DD_API_KEY = "" => got = NoAuth)

\* C7 witness: with the fallback configured, one device holds a record
\* with keys, the other a record with an empty api_key, and an ack of the
\* first was sent upstream with its own keys
C7_Witness ==
  /\ env.DD_API_KEY /= ""
  /\ \E r \in db : r.device_id = DEVICE_ID /\ r.api_key = "k1"
  /\ \E r \in db : r.device_id = "pager-42" /\ r.api_key = ""
  /\ cb.topic = Topic(DEVICE_ID, "ack")
  /\ cb.posts /= <<>>
  /\ cb.posts[1].api_key = "k1"

\* C8: the table holds at most one row per device_id; a device upserted at
\* least once has a row with the keys and region of its latest upsert and
\* the created_at of its first; no step changes the created_at of a row.
C8_UpsertKeepsOneRow ==
  /\ [](\A d \in Devices :
          LET rows == {r \in db : r.device_id = d}
          IN /\ Cardinality(rows) <= 1
             /\ (ups[d].first = 0 => rows = {})
             /\ (ups[d].first /= 0 =>
                   \E r \in rows : /\ r.api_key = ups[d].api_key
                                   /\ r.app_key = ups[d].app_key
                                   /\ r.dd_site = ups[d].dd_site
                                   /\ r.created_at = ups[d].first))
  /\ [][\A r \in db : \E r2 \in db' : /\ r2.device_id = r.device_id
                                      /\ r2.created_at = r.created_at]_vars

\* C8 witness: a device upserted twice with different keys
C8_Witness ==
  /\ clock = 3
  /\ ups[DEVICE_ID].first = 1
  /\ \E r \in db : /\ r.device_id = DEVICE_ID
                   /\ r.api_key = "k2"
                   /\ r.created_at = 1
  /\ Cardinality(db) = 1

\* C9 (as claimed): every message the transport accepted is eventually
\* acknowledged by the broker (unless the process is shut down).
C9_AtLeastOnce ==
  \A m \in Mids : (m < nextMid) ~> (m \in delivered \/ pc = "stopped")

\* C10 (as claimed): every alert handed to the transport has a title of at
\* most 120 characters, a severity of at most 30 and a service of at most
\* 60.
C10_AlertFieldLimits ==
  handed.mid /= 0 /\ handed.topic[4] = "alert" =>
    /\ handed.payload.title.n <= TitleMax
    /\ handed.payload.severity.n <= SeverityMax
    /\ handed.payload.service.n <= ServiceMax

\* The value of the first key of keys that body holds with a non-null
\* value, else default
RECURSIVE FirstNonNull(_, _, _)
FirstNonNull(body, keys, default) ==
  IF keys = <<>> THEN default
  ELSE IF body[Head(keys)].t \notin {"absent", "null"} THEN body[Head(keys)]
  ELSE FirstNonNull(body, Tail(keys), default)

\* C11 (as claimed): the alert built from a JSON object whose first
\* non-null title candidate is a string carries, for each field, the value
\* of the first candidate key that is present and non-null (else the
\* default): a null is skipped and later candidates do not matter.
C11_FirstNonNullWins ==
  req.kind = "webhook" /\ req.body["shape"] = "dict" =>
    LET b == req.body
        id == FirstNonNull(b, <<"id", "alert_id", "page_id">>, NewUuid)
        title == FirstNonNull(b, <<"title", "message", "name">>, JStr("Alert", 5))
        severity == FirstNonNull(b, <<"severity", "priority", "urgency">>, JStr("P?", 2))
        service == FirstNonNull(b, <<"service", "service_name", "tags_service">>,
                                JStr("unknown", 7))
    IN title.t \in {"str", "dict"} =>
         /\ req.payload.kind = "alert"
         /\ req.payload.id.tag = id.tag
         /\ req.payload.title.tag = title.tag
         /\ req.payload.severity.tag = severity.tag
         /\ req.payload.service.tag = service.tag

\* C12: a registration whose validation returned 200 has stored the record
\* it was given; nothing that follows in the request (webhook call failed,
\* ensure_mqtt raised or timed out, publish rejected) touches the store, and
\* the request is answered with the success page.
C12_BestEffortSideActions ==
  /\ [](req.kind = "connect" /\ req.validate = "200" =>
          /\ req.upserted
          /\ \E r \in db : /\ r.device_id = req.device_id
                            /\ r.api_key = ups[req.device_id].api_key
                            /\ r.app_key = ups[req.device_id].app_key
                            /\ r.dd_site = ups[req.device_id].dd_site
          /\ (pc = "done" => resp.status = "connected" /\ resp.code = 200))
  /\ [][req.kind = "connect" /\ pc /= "idle" => db' = db]_vars

\* C12 witness: a registration answered with the success page although the
\* webhook call failed and ensure_mqtt timed out
C12_Witness ==
  /\ pc = "done"
  /\ req.kind = "connect"
  /\ req.hook = "failed"
  /\ ens.ret = "raised"
  /\ ens.polls = 40
  /\ handed.mid = 0
  /\ resp.status = "connected"
  /\ \E r \in db : r.device_id = req.device_id /\ r.api_key = "k2"

\* C12 witness of the other failure: both start_mqtt calls raised
C12_WitnessStartRaised ==
  /\ pc = "done"
  /\ req.kind = "connect"
  /\ ens.ret = "raised"
  /\ ens.polls = 0
  /\ ens.starts = 2
  /\ resp.status = "connected"

\* C13: whenever a lookup runs (before, during or after an upsert of the
\* same device by the other thread) it finds no record for a device no
\* upsert has completed for, and otherwise the record of the last completed
\* upsert, whole: api_key, app_key and region all of that one upsert; the
\* credentials on_mqtt_message sends upstream are that record's or the
\* fallback's, never a mix.
C13_LookupSeesWholeRecord ==
  /\ [](\A d \in Devices :
          LET row == db_get_device(d)
          IN IF ups[d].first = 0
               THEN row = NoRow
               ELSE /\ row.device_id = d
                    /\ row.api_key = ups[d].api_key
                    /\ row.app_key = ups[d].app_key
                    /\ row.dd_site = ups[d].dd_site)
  /\ [][cb' /= cb /\ cb'.posts /= <<>> =>
         LET d == cb'.topic[3]
             post == cb'.posts[1]
         IN \/ /\ ups[d].api_key /= ""
               /\ post.api_key = ups[d].api_key
               /\ post.app_key = ups[d].app_key
               /\ post.site = ups[d].dd_site
            \/ /\ ups[d].api_key = ""
               /\ post.api_key = env.DD_API_KEY
               /\ post.app_key = env.DD_APP_KEY
               /\ post.site = env.DD_SITE]_vars

\* C13 witness: an ack was sent upstream with the committed keys k1/a1 of
\* the device while a second upsert of the same device, with other keys and
\* region, had executed but not committed
C13_Witness ==
  /\ \E r \in db : r.device_id = DEVICE_ID /\ r.api_key = "k1" /\ r.app_key = "a1"
  /\ req.device_id = DEVICE_ID
  /\ \E r \in req.tx : r.device_id = DEVICE_ID /\ r.api_key = "k2" /\ r.app_key = "a2"
                           /\ r.dd_site /= db_get_device(DEVICE_ID).dd_site
  /\ cb.topic = Topic(DEVICE_ID, "ack")
  /\ cb.posts /= <<>>
  /\ cb.posts[1].api_key = "k1"
  /\ cb.posts[1].app_key = "a1"

\* The text holds no slash
NoSlash(text) == \A i \in 1..Len(text) : text[i] /= "/"

\* C14: the address formatted for a device identifier without a slash and
\* one of the four channels splits into exactly four pieces, the third
\* being the identifier and the fourth the channel.
C14_TopicRoundTrip ==
  \A d \in DeviceStrings, c \in Channels :
    NoSlash(d) /\ handed.topic = TopicString(d, Chars(c)) /\ cb.topic /= <<>> =>
      /\ Len(cb.topic) = 4
      /\ cb.topic[1] = Chars("dd")
      /\ cb.topic[2] = Chars("pager")
      /\ cb.topic[3] = d
      /\ cb.topic[4] = Chars(c)

\* C14 witness: dd/pager/p4/ack was formatted and split back
C14_Witness ==
  /\ handed.topic = TopicString(<<"p", "4">>, Chars("ack"))
  /\ cb.topic = <<Chars("dd"), Chars("pager"), <<"p", "4">>, Chars("ack")>>

\* C15: ensure_mqtt calls start_mqtt at most twice; the second call is made
\* only after the first raised, following one sleep(1) and before any poll;
\* if the second raises too, ensure_mqtt raises at once: no poll, nothing
\* handed to the transport, the caller's error path taken.
C15_RetryStartOnce ==
  /\ [](/\ ens.starts <= 2
        /\ ens.waits <= 1
        /\ (ens.starts = 2 <=> ens.waits = 1)
        /\ (pc = "ens_start2" => ens.starts = 1 /\ ens.polls = 0 /\ ~IsConnected))
  /\ [][ens'.starts = 2 /\ ens.starts /= 2 =>
         /\ pc = "ens_start2"
         /\ ens.starts = 1
         /\ ens'.polls = 0
         /\ IF clients'[mqtt_client'].loop
              THEN pc' = "ens_poll" /\ ens'.ret = "none"
              ELSE /\ pc' = "done"
                   /\ ens'.ret = "raised"
                   /\ handed'.mid = 0
                   /\ resp'.status \in {"error", "connected"}]_vars

\* C15 witness: a webhook answered "error" after both start_mqtt calls
\* raised, one sleep between them and no poll
C15_Witness ==
  /\ pc = "done"
  /\ req.kind = "webhook"
  /\ ens.starts = 2
  /\ ens.waits = 1
  /\ ens.polls = 0
  /\ ens.ret = "raised"
  /\ resp.status = "error"
  /\ handed.mid = 0

\* C16: the step of ensure_mqtt that finds the handle connected on entry
\* returns at once: no start_mqtt, no sleep, no poll, and the handle, the
\* Client objects, their subscriptions and their queues are as before.
C16_ConnectedIsNoOp ==
  /\ [][pc = "ens_check" /\ IsConnected /\ pc' /= pc =>
         /\ pc' = "publish"
         /\ ens' = [EnsIdle EXCEPT !.saw = TRUE, !.ret = "ok"]
         /\ mqtt_client' = mqtt_client
         /\ clients' = clients
         /\ handed' = handed
         /\ nextMid' = nextMid]_vars
  /\ [](ens.ret = "ok" /\ ens.starts = 0 => ens.polls = 0 /\ ens.waits = 0)

\* C16 witness: ensure_mqtt returned at once on a connected handle that
\* holds both subscriptions and a message still queued
C16_Witness ==
  /\ pc = "publish"
  /\ ens = [EnsIdle EXCEPT !.saw = TRUE, !.ret = "ok"]
  /\ mqtt_client /= 0
  /\ clients[mqtt_client].subs = {SubAck, SubResolve}
  /\ clients[mqtt_client].queue = <<1>>

\* C17 (as claimed): at any time at most one Client object is live (has a
\* running network loop or an open connection), whether the teardown made
\* by start_mqtt returned or raised.
C17_OneLiveHandle ==
  Cardinality({c \in DOMAIN clients : Live(clients[c])}) <= 1

\* The state of the transport connection: that of the current handle
ConnState == IF mqtt_client = 0 THEN "disconnected" ELSE clients[mqtt_client].conn

\* A step in which start_mqtt() binds a new handle
IsStart == (pc = "boot" /\ pc' /= "boot") \/ ens'.starts = ens.starts + 1

\* C18 (as claimed): the state of the connection changes only from
\* Disconnected to Connecting, from Connecting to Connected and from
\* Connected to Disconnected.
C18_OnlyListedTransitions ==
  [][ConnState' /= ConnState =>
       <<ConnState, ConnState'>> \in {<<"disconnected", "connecting">>,
                                     <<"connecting", "connected">>,
                                     <<"connected", "disconnected">>}]_vars

\* C18 (amended): a handle's state changes only from Disconnected to
\* Connecting, from Connecting to Connected or (handshake refused or failed,
\* or the handle stopped) back to Disconnected, and from Connected to
\* Disconnected; never from Disconnected to Connected. start_mqtt() returns
\* with the new handle Connecting, its loop running, or raises with the new
\* handle Disconnected; it never returns a Connected handle.
C18_HandshakeBeforeConnected ==
  /\ [][~IsStart =>
         \A h \in DOMAIN clients \cap DOMAIN clients' :
           clients'[h].conn /= clients[h].conn =>
             <<clients[h].conn, clients'[h].conn>> \in
               {<<"disconnected", "connecting">>, <<"connecting", "connected">>,
                <<"connecting", "disconnected">>, <<"connected", "disconnected">>}]_vars
  /\ [][IsStart =>
         /\ clients'[mqtt_client'].conn \in {"connecting", "disconnected"}
         /\ clients'[mqtt_client'].loop = (clients'[mqtt_client'].conn = "connecting")
         /\ clients'[mqtt_client'].subs = {}
         /\ (pc' \in {"idle", "ens_poll"} <=> clients'[mqtt_client'].conn = "connecting")]_vars
  /\ [][ConnState = "disconnected" => ConnState' /= "connected"]_vars

\* C18 witness: start_mqtt() has returned to ensure_mqtt, which is polling
\* while the handshake of the new handle is still in flight
C18_Witness ==
  /\ pc = "ens_poll"
  /\ ens.starts = 1
  /\ ens.polls = 3
  /\ mqtt_client /= 0
  /\ clients[mqtt_client].conn = "connecting"
  /\ clients[mqtt_client].loop

\* C19 (as claimed): whenever the process runs with a handle that is not
\* connected, the handle becomes connected in the end (or the process is
\* shut down), whether or not another request comes and restarts it.
C19_ReconnectsByItself ==
  (mqtt_client /= 0 /\ pc /= "stopped" /\ ~IsConnected)
    ~> (IsConnected \/ pc = "stopped")

\* The address has the form dd/pager/{D}/{C}
WellFormed(topic) == Len(topic) = 4 /\ topic[1] = "dd" /\ topic[2] = "pager"

\* C20 (as claimed): an on_mqtt_message invocation for an address that is
\* not of the form dd/pager/{D}/{C} makes no POST, raises nothing, and
\* leaves the store and the connection as they were.
C20_MalformedAddressRejected ==
  [][cb' /= cb /\ ~WellFormed(cb'.topic) =>
       /\ cb'.posts = <<>>
       /\ ~cb'.raised
       /\ UNCHANGED <<db, clock, mqtt_client, clients>>]_vars

\* C21: every handle that is connected holds exactly the two wildcard
\* subscriptions, after the first handshake, after a restart and after a
\* reconnect alike; the subscriptions of a handle change only in a step of
\* its network thread or when start_mqtt replaces it, never in a step that
\* writes the store.
C21_WildcardSubscriptions ==
  /\ [](\A h \in DOMAIN clients :
          clients[h].conn = "connected" => clients[h].subs = {SubAck, SubResolve})
  /\ [][\A h \in DOMAIN clients \cap DOMAIN clients' :
          clients'[h].subs /= clients[h].subs =>
            \/ pc' = pc /\ req' = req /\ db' = db
            \/ IsStart]_vars
  /\ [][db' /= db => clients' = clients /\ mqtt_client' = mqtt_client]_vars

\* C21 witness: a second device was registered and notified over the handle
\* started at startup, which holds the two subscriptions it made then
C21_Witness ==
  /\ pc = "done"
  /\ req.kind = "connect"
  /\ req.device_id = "pager-42"
  /\ req.upserted
  /\ ens.starts = 0
  /\ handed.mid /= 0
  /\ Cardinality(db) = 2
  /\ clients[mqtt_client].conn = "connected"
  /\ clients[mqtt_client].subs = {SubAck, SubResolve}

\* C22 (as claimed): every start_mqtt() that ensure_mqtt makes is entered
\* while the current handle is absent or not connected, whatever the
\* network thread did since ensure_mqtt read the handle's state.
C22_NeverRestartsConnected ==
  [][ens'.starts = ens.starts + 1 => ~IsConnected]_vars

\* C23: no row of the store has an empty api_key or app_key; a
\* registration whose api_key or app_key is empty once stripped is answered
\* 400 at once, with no validation call, no webhook call, nothing published,
\* and the store and the connection as they were.
C23_StoredKeysNonEmpty ==
  /\ [](\A r \in db : r.api_key /= "" /\ r.app_key /= "")
  /\ [][\A f \in Forms, v \in ValidateOutcomes, k \in {"ok", "failed"} :
          ConnectDevice(f, v, k) /\ (f.api_key = "" \/ f.app_key = "") =>
            /\ pc' = "done"
            /\ resp'.status = "keys_required"
            /\ resp'.code = 400
            /\ req'.validate = "none"
            /\ req'.hook = "none"
            /\ ~req'.upserted
            /\ db' = db
            /\ clients' = clients
            /\ nextMid' = nextMid]_vars

\* C23 witness: a registration without an app_key was answered 400 while
\* the store holds the record of an earlier registration, unchanged
C23_Witness ==
  /\ pc = "done"
  /\ req.kind = "connect"
  /\ resp.status = "keys_required"
  /\ req.validate = "none"
  /\ db = {Row(DEVICE_ID, "k2", "a2", DefaultSite, 1)}

====
